---- MODULE Spec2Model ----
(***************************************************************************)
(* Model of streamlit_app.py: "Multiple files to revisor".                 *)
(* One press of the send button runs: validation, collection of the PDFs  *)
(* (uploads / ZIPs / folder), one SMTP session, one e-mail per PDF, report.*)
(* File names are sequences of one-character strings so that lower(),     *)
(* endswith() and slicing are computed, not assumed.                       *)
(***************************************************************************)
EXTENDS Integers, Sequences, FiniteSets, TLC

VARIABLES
    sender_email,   \* sidebar text input (line 31)
    app_password,   \* sidebar text input (line 32)
    use_tls,        \* sidebar toggle (line 45)
    upload_mode,    \* radio (line 52)
    uploads,        \* uploaded blobs (lines 58-66)
    folder_path,    \* text input (lines 59, 68)
    listing,        \* what os.path.isdir / os.listdir / open see under folder_path
    recipient,      \* text input (line 75)
    dry_run,        \* checkbox (line 87)
    pc,             \* position in the script
    errors,         \* validation messages (line 160)
    pdfs,           \* collected PdfItems (line 172)
    results,        \* per-file outcome records (line 187)
    smtp,           \* the smtplib.SMTP object, or "None" (line 190)
    i,              \* enumerate index of the loop (line 197)
    filename,       \* loop local (line 198)
    subject,        \* loop local (line 199)
    body,           \* loop local (line 200)
    exc,            \* exception travelling to the outer handler (line 235)
    ui,             \* everything rendered through st.* calls, in order
    log             \* calls made on the transport and time.sleep, in order

vars == <<sender_email, app_password, use_tls, upload_mode, uploads, folder_path,
          listing, recipient, dry_run, pc, errors, pdfs, results, smtp, i,
          filename, subject, body, exc, ui, log>>

inputs == <<sender_email, app_password, use_tls, upload_mode, uploads, folder_path,
            listing, recipient, dry_run>>

-----------------------------------------------------------------------------
(* Bounds *)

MaxUploads == 3
MaxCollect == 3
MaxNameLen == 5

SeqsUpTo(S, n) == UNION {[1..k -> S] : k \in 0..n}

-----------------------------------------------------------------------------
(* String primitives of Python, on sequences of characters *)

LowerChar(c) ==
    CASE c = "P" -> "p"
      [] c = "D" -> "d"
      [] c = "F" -> "f"
      [] c = "Z" -> "z"
      [] c = "I" -> "i"
      [] c = "A" -> "a"
      [] c = "B" -> "b"
      [] OTHER -> c

lower(s) == [k \in 1..Len(s) |-> LowerChar(s[k])]

endswith(s, suffix) ==
    /\ Len(s) >= Len(suffix)
    /\ SubSeq(s, Len(s) - Len(suffix) + 1, Len(s)) = suffix

\* s[:-n] for n > 0
SliceOffEnd(s, n) == IF Len(s) > n THEN SubSeq(s, 1, Len(s) - n) ELSE <<>>

\* s[:n]
SliceHead(s, n) == IF Len(s) > n THEN SubSeq(s, 1, n) ELSE s

RECURSIVE LastSlash(_, _)
LastSlash(s, k) ==
    IF k = 0 THEN 0 ELSE IF s[k] = "/" THEN k ELSE LastSlash(s, k - 1)

basename(p) == SubSeq(p, LastSlash(p, Len(p)) + 1, Len(p))

DOT_PDF == <<".", "p", "d", "f">>
DOT_ZIP == <<".", "z", "i", "p">>

-----------------------------------------------------------------------------
(* Message Composer *)

BODY_HEAD == <<"H", "i", ",", "\n", "\n", "P", "l", "e", "a", "s", "e", " ",
               "f", "i", "n", "d", " ", "a", "t", "t", "a", "c", "h", "e", "d",
               ":", " ">>
BODY_TAIL == <<".", "\n", "\n", "B", "e", "s", "t", " ", "r", "e", "g", "a",
               "r", "d", "s", ".">>

AUTO_BODY_TEMPLATE(base) == BODY_HEAD \o base \o BODY_TAIL

\* Faulty variant: the suffix test without lower()
build_subject_auto_CaseSensitive(f) ==
    IF endswith(f, DOT_PDF) THEN SliceOffEnd(f, 4) ELSE f

build_subject_auto(f) ==
    IF endswith(lower(f), DOT_PDF) THEN SliceOffEnd(f, 4) ELSE f

build_body_auto(f) ==
    LET base == IF endswith(lower(f), DOT_PDF) THEN SliceOffEnd(f, 4) ELSE f
    IN  AUTO_BODY_TEMPLATE(base)

is_pdf(name) == endswith(lower(name), DOT_PDF)

-----------------------------------------------------------------------------
(* Input Collector *)

UPLOAD == "Upload files / ZIP (web-safe)"
FOLDER == "Local folder (desktop only)"

PdfItem(n, d) == [name |-> n, data |-> d]

BadZipWarning(fname) == <<"warning", "not a valid ZIP file", fname>>
ReadWarning(name)    == <<"warning", "Could not read", name>>

\* The body of "with zipfile.ZipFile(b) as z": the entries in archive order.
\* Reading an entry whose stored data is damaged raises BadZipFile; what was
\* appended before stays in results.
RECURSIVE ZipEntries(_, _)
ZipEntries(infolist, acc) ==
    IF infolist = <<>> THEN [items |-> acc, raised |-> FALSE]
    ELSE LET info == Head(infolist) IN
         IF ~info.is_dir /\ is_pdf(info.filename)
         THEN IF info.crc_ok
              THEN ZipEntries(Tail(infolist),
                              Append(acc, PdfItem(basename(info.filename), info.nbytes)))
              ELSE [items |-> acc, raised |-> TRUE]
         ELSE ZipEntries(Tail(infolist), acc)

\* Faulty variant: a bad archive discards what was collected so far
UploadStep_BadZipLosesItems(f, r) ==
    IF is_pdf(f.name)
    THEN [r EXCEPT !.items = Append(@, PdfItem(f.name, f.nbytes))]
    ELSE IF endswith(lower(f.name), DOT_ZIP)
    THEN IF ~f.is_zip
         THEN [items |-> <<>>, warnings |-> Append(r.warnings, BadZipWarning(f.name))]
         ELSE LET z == ZipEntries(f.entries, <<>>) IN
              [items    |-> r.items \o z.items,
               warnings |-> IF z.raised
                            THEN Append(r.warnings, BadZipWarning(f.name))
                            ELSE r.warnings]
    ELSE r

\* One iteration of "for f in files" (lines 105-117): r is [items, warnings].
UploadStep(f, r) ==
    IF is_pdf(f.name)
    THEN [r EXCEPT !.items = Append(@, PdfItem(f.name, f.nbytes))]
    ELSE IF endswith(lower(f.name), DOT_ZIP)
    THEN IF ~f.is_zip
         THEN [r EXCEPT !.warnings = Append(@, BadZipWarning(f.name))]
         ELSE LET z == ZipEntries(f.entries, <<>>) IN
              [items    |-> r.items \o z.items,
               warnings |-> IF z.raised
                            THEN Append(r.warnings, BadZipWarning(f.name))
                            ELSE r.warnings]
    ELSE r

RECURSIVE UploadLoop(_, _)
UploadLoop(files, r) ==
    IF files = <<>> THEN r ELSE UploadLoop(Tail(files), UploadStep(Head(files), r))

list_pdfs_from_uploads(files) == UploadLoop(files, [items |-> <<>>, warnings |-> <<>>])

RECURSIVE FolderLoop(_, _)
FolderLoop(names, r) ==
    IF names = <<>> THEN r
    ELSE LET e == Head(names) IN
         FolderLoop(Tail(names),
             IF is_pdf(e.name)
             THEN IF e.readable
                  THEN [r EXCEPT !.items = Append(@, PdfItem(e.name, e.nbytes))]
                  ELSE [r EXCEPT !.warnings = Append(@, ReadWarning(e.name))]
             ELSE r)

list_pdfs_from_folder(path, dir) ==
    IF path # "" /\ dir.isdir
    THEN FolderLoop(dir.names, [items |-> <<>>, warnings |-> <<>>])
    ELSE [items |-> <<>>, warnings |-> <<>>]

collect_pdfs(mode, files, path, dir) ==
    IF mode = UPLOAD THEN list_pdfs_from_uploads(files)
    ELSE list_pdfs_from_folder(path, dir)

-----------------------------------------------------------------------------
(* Inputs the model draws from *)

SMALL == 24 * 1024 * 1024
BIG   == 24 * 1024 * 1024 + 1

Entry(n, d, sz, ok) == [filename |-> n, is_dir |-> d, nbytes |-> sz, crc_ok |-> ok]
Blob(n, sz, z, es)  == [name |-> n, nbytes |-> sz, is_zip |-> z, entries |-> es]

a_pdf   == Blob(<<"a", ".", "p", "d", "f">>, SMALL, FALSE, <<>>)
b_PDF   == Blob(<<"b", ".", "P", "D", "F">>, BIG, FALSE, <<>>)
bad_zip == Blob(<<"c", ".", "z", "i", "p">>, SMALL, FALSE, <<>>)
good_ZIP ==
    Blob(<<"z", ".", "Z", "I", "P">>, SMALL, TRUE,
         << Entry(<<"d", "/">>, TRUE, 0, TRUE),
            Entry(<<"d", "/", "e", ".", "p", "d", "f">>, FALSE, SMALL, TRUE),
            Entry(<<"n", ".", "t", "x", "t">>, FALSE, SMALL, TRUE),
            Entry(<<"f", ".", "P", "d", "F">>, FALSE, SMALL, TRUE) >>)
torn_zip ==
    Blob(<<"t", ".", "z", "i", "p">>, SMALL, TRUE,
         << Entry(<<"g", ".", "p", "d", "f">>, FALSE, SMALL, TRUE),
            Entry(<<"h", ".", "p", "d", "f">>, FALSE, SMALL, FALSE),
            Entry(<<"k", ".", "p", "d", "f">>, FALSE, SMALL, TRUE) >>)
empty_zip == Blob(<<"e", ".", "z", "i", "p">>, SMALL, TRUE, <<>>)
n_txt   == Blob(<<"n", ".", "t", "x", "t">>, SMALL, FALSE, <<>>)

UploadPool  == {a_pdf, b_PDF, bad_zip, good_ZIP}
CollectPool == {a_pdf, b_PDF, bad_zip, good_ZIP, torn_zip, empty_zip, n_txt}

File(n, sz, ok) == [name |-> n, nbytes |-> sz, readable |-> ok]

Listings ==
    { [isdir |-> FALSE, names |-> <<>>],
      [isdir |-> TRUE,  names |-> <<>>],
      [isdir |-> TRUE,
       names |-> << File(<<"a", ".", "p", "d", "f">>, SMALL, TRUE),
                    File(<<"n", ".", "t", "x", "t">>, SMALL, TRUE),
                    File(<<"b", ".", "P", "D", "F">>, SMALL, FALSE),
                    File(<<"f", ".", "P", "d", "F">>, BIG, TRUE) >>] }

NameAlphabet == {".", "p", "P", "d", "D", "f", "F", "a"}

-----------------------------------------------------------------------------
(* The action block of the send button (lines 159-236) *)

\* smtp is None until smtplib.SMTP(...) returns; then it is the session object
None    == [made |-> FALSE, tls |-> FALSE, auth |-> FALSE, closed |-> FALSE]
Session == [made |-> TRUE,  tls |-> FALSE, auth |-> FALSE, closed |-> FALSE]

Ev(o, k, good) == [op |-> o, idx |-> k, ok |-> good]

E_RECIPIENT == "Please enter a recipient email."
E_UPLOAD    == "Please upload at least one PDF or a ZIP containing PDFs."
E_FOLDER    == "Please provide a local folder path."
E_PASSWORD  == "Please enter your Gmail App Password (or enable Dry run)."
E_SENDER    == "Please enter your sender email."
E_NO_PDFS   == "No PDFs detected. Upload PDFs directly / ZIPs or point to a folder with PDFs."

When(cond, msg) == IF cond THEN <<msg>> ELSE <<>>

\* Faulty variant: the sender check of lines 169-170 left out
ValidationErrors_NoSenderCheck(items) ==
       When(recipient = "", E_RECIPIENT)
    \o When(upload_mode = UPLOAD /\ uploads = <<>>, E_UPLOAD)
    \o When(upload_mode = FOLDER /\ folder_path = "", E_FOLDER)
    \o When(app_password = "" /\ ~dry_run, E_PASSWORD)
    \o When((uploads # <<>> \/ folder_path # "") /\ items = <<>>, E_NO_PDFS)

\* lines 160-175, in the order the messages are appended
ValidationErrors(items) ==
       When(recipient = "", E_RECIPIENT)
    \o When(upload_mode = UPLOAD /\ uploads = <<>>, E_UPLOAD)
    \o When(upload_mode = FOLDER /\ folder_path = "", E_FOLDER)
    \o When(app_password = "" /\ ~dry_run, E_PASSWORD)
    \o When(sender_email = "", E_SENDER)
    \o When((uploads # <<>> \/ folder_path # "") /\ items = <<>>, E_NO_PDFS)

\* lines 178-180
TooBigWarning(items) ==
    When(\E k \in 1..Len(items) : items[k].data > 24 * 1024 * 1024,
         <<"warning", "Some PDFs exceed ~24MB">>)

ErrorLines(errs) == [k \in 1..Len(errs) |-> <<"error", errs[k]>>]

\* lines 159-187: validation, collection, and the branch on errors
Validate ==
    /\ pc = "start"
    /\ LET got  == collect_pdfs(upload_mode, uploads, folder_path, listing)
           errs == ValidationErrors(got.items)
       IN  /\ pdfs' = got.items
           /\ errors' = errs
           /\ IF errs # <<>>
              THEN /\ ui' = ui \o got.warnings \o TooBigWarning(got.items) \o ErrorLines(errs)
                   /\ pc' = "done"
              ELSE /\ ui' = ui \o got.warnings \o TooBigWarning(got.items)
                               \o << <<"info", Len(got.items), recipient>> >>
                   /\ pc' = "open"
    /\ results' = <<>>
    /\ UNCHANGED <<inputs, smtp, i, filename, subject, body, exc, log>>

\* Faulty variant: the session is opened although dry_run is set
OpenSkipped_ConnectsAnyway ==
    /\ pc = "open"
    /\ dry_run
    /\ smtp' = Session
    /\ log' = Append(log, Ev("connect", 0, TRUE))
    /\ pc' = "loop"
    /\ UNCHANGED <<inputs, errors, pdfs, results, i, filename, subject, body, exc, ui>>

\* lines 190-191 with dry_run set: smtp stays None
OpenSkipped ==
    /\ pc = "open"
    /\ dry_run
    /\ smtp' = None
    /\ pc' = "loop"
    /\ UNCHANGED <<inputs, errors, pdfs, results, i, filename, subject, body, exc, ui, log>>

\* Faulty variant: use_tls is ignored
Connect_SkipsTls(good) ==
    /\ pc = "open"
    /\ ~dry_run
    /\ log' = Append(log, Ev("connect", 0, good))
    /\ IF good
       THEN /\ smtp' = Session
            /\ pc' = "login"
            /\ exc' = exc
       ELSE /\ smtp' = None
            /\ pc' = "except"
            /\ exc' = "connect failed"
    /\ UNCHANGED <<inputs, errors, pdfs, results, i, filename, subject, body, ui>>

\* line 192: smtplib.SMTP(server, port, timeout=60); on failure the constructor
\* raises and smtp is left None
Connect(good) ==
    /\ pc = "open"
    /\ ~dry_run
    /\ log' = Append(log, Ev("connect", 0, good))
    /\ IF good
       THEN /\ smtp' = Session
            /\ pc' = IF use_tls THEN "starttls" ELSE "login"
            /\ exc' = exc
       ELSE /\ smtp' = None
            /\ pc' = "except"
            /\ exc' = "connect failed"
    /\ UNCHANGED <<inputs, errors, pdfs, results, i, filename, subject, body, ui>>

\* lines 193-194
StartTls(good) ==
    /\ pc = "starttls"
    /\ log' = Append(log, Ev("starttls", 0, good))
    /\ IF good
       THEN /\ smtp' = [smtp EXCEPT !.tls = TRUE]
            /\ pc' = "login"
            /\ exc' = exc
       ELSE /\ smtp' = smtp
            /\ pc' = "except"
            /\ exc' = "starttls failed"
    /\ UNCHANGED <<inputs, errors, pdfs, results, i, filename, subject, body, ui>>

\* Faulty variant: a failed login does not leave the try block
Login_ContinuesOnFailure(good) ==
    /\ pc = "login"
    /\ log' = Append(log, Ev("login", 0, good))
    /\ smtp' = [smtp EXCEPT !.auth = good]
    /\ pc' = "loop"
    /\ exc' = exc
    /\ UNCHANGED <<inputs, errors, pdfs, results, i, filename, subject, body, ui>>

\* line 195
Login(good) ==
    /\ pc = "login"
    /\ log' = Append(log, Ev("login", 0, good))
    /\ IF good
       THEN /\ smtp' = [smtp EXCEPT !.auth = TRUE]
            /\ pc' = "loop"
            /\ exc' = exc
       ELSE /\ smtp' = smtp
            /\ pc' = "except"
            /\ exc' = "login failed"
    /\ UNCHANGED <<inputs, errors, pdfs, results, i, filename, subject, body, ui>>

\* line 206
BodyPreview(b) == IF Len(b) > 80 THEN Append(SliceHead(b, 80), "...") ELSE b

DRY_RUN == <<"DRY RUN (not sent)">>
SENT    == <<"Sent">>
Failed(e) == <<"Failed", e>>

\* lines 197-208: one iteration in dry-run mode
DryRunItem ==
    /\ pc = "loop"
    /\ i < Len(pdfs)
    /\ dry_run
    /\ LET fn == pdfs[i + 1].name IN
       /\ i' = i + 1
       /\ filename' = fn
       /\ subject' = build_subject_auto(fn)
       /\ body' = build_body_auto(fn)
       /\ results' = Append(results,
              [File |-> fn, Subject |-> build_subject_auto(fn),
               Body |-> BodyPreview(build_body_auto(fn)), Status |-> DRY_RUN])
    /\ UNCHANGED <<inputs, errors, pdfs, smtp, exc, ui, log, pc>>

\* Faulty variant: a failed send records nothing
SendItem_DropsFailed(good) ==
    /\ pc = "loop"
    /\ i < Len(pdfs)
    /\ ~dry_run
    /\ LET fn == pdfs[i + 1].name IN
       /\ i' = i + 1
       /\ filename' = fn
       /\ subject' = build_subject_auto(fn)
       /\ body' = build_body_auto(fn)
       /\ log' = Append(log, Ev("send", i + 1, good))
       /\ IF good
          THEN /\ results' = Append(results,
                      [File |-> fn, Subject |-> build_subject_auto(fn), Status |-> SENT])
               /\ pc' = "sleep"
          ELSE /\ results' = results
               /\ pc' = "loop"
    /\ UNCHANGED <<inputs, errors, pdfs, smtp, exc, ui>>

\* Faulty variant: a failed send propagates to the outer handler
SendItem_AbortsOnFailure(good) ==
    /\ pc = "loop"
    /\ i < Len(pdfs)
    /\ ~dry_run
    /\ LET fn == pdfs[i + 1].name IN
       /\ i' = i + 1
       /\ filename' = fn
       /\ subject' = build_subject_auto(fn)
       /\ body' = build_body_auto(fn)
       /\ log' = Append(log, Ev("send", i + 1, good))
       /\ IF good
          THEN /\ results' = Append(results,
                      [File |-> fn, Subject |-> build_subject_auto(fn), Status |-> SENT])
               /\ pc' = "sleep"
               /\ exc' = exc
          ELSE /\ results' = results
               /\ pc' = "except"
               /\ exc' = "send failed"
    /\ UNCHANGED <<inputs, errors, pdfs, smtp, ui>>

\* lines 197-200, 209-225: one iteration that really sends. A send that raises
\* is caught at line 224, which skips the time.sleep of line 223.
SendItem(good) ==
    /\ pc = "loop"
    /\ i < Len(pdfs)
    /\ ~dry_run
    /\ LET fn == pdfs[i + 1].name IN
       /\ i' = i + 1
       /\ filename' = fn
       /\ subject' = build_subject_auto(fn)
       /\ body' = build_body_auto(fn)
       /\ log' = Append(log, Ev("send", i + 1, good))
       /\ IF good
          THEN /\ results' = Append(results,
                      [File |-> fn, Subject |-> build_subject_auto(fn), Status |-> SENT])
               /\ pc' = "sleep"
          ELSE /\ results' = Append(results,
                      [File |-> fn, Subject |-> build_subject_auto(fn),
                       Status |-> Failed("send failed")])
               /\ pc' = "loop"
    /\ UNCHANGED <<inputs, errors, pdfs, smtp, exc, ui>>

\* line 223
Sleep ==
    /\ pc = "sleep"
    /\ log' = Append(log, Ev("sleep", i, TRUE))
    /\ pc' = "loop"
    /\ UNCHANGED <<inputs, errors, pdfs, results, smtp, i, filename, subject, body, exc, ui>>

\* line 227 with smtp None
QuitSkipped ==
    /\ pc = "loop"
    /\ i = Len(pdfs)
    /\ smtp = None
    /\ pc' = "report"
    /\ UNCHANGED <<inputs, errors, pdfs, results, smtp, i, filename, subject, body, exc, ui, log>>

\* lines 227-231: smtp.quit(); an exception is passed over. smtplib closes the
\* socket on every path of quit(), raising or not.
Quit(good) ==
    /\ pc = "loop"
    /\ i = Len(pdfs)
    /\ smtp # None
    /\ log' = Append(log, Ev("quit", 0, good))
    /\ smtp' = [smtp EXCEPT !.closed = TRUE]
    /\ pc' = "report"
    /\ UNCHANGED <<inputs, errors, pdfs, results, i, filename, subject, body, exc, ui>>

\* lines 233-234
Report ==
    /\ pc = "report"
    /\ ui' = ui \o << <<"success", "Done.">>, <<"dataframe", results>> >>
    /\ pc' = "done"
    /\ UNCHANGED <<inputs, errors, pdfs, results, smtp, i, filename, subject, body, exc, log>>

\* lines 235-236
Except ==
    /\ pc = "except"
    /\ ui' = Append(ui, <<"error", "Unexpected error", exc>>)
    /\ pc' = "done"
    /\ UNCHANGED <<inputs, errors, pdfs, results, smtp, i, filename, subject, body, exc, log>>

-----------------------------------------------------------------------------
(* Specifications *)

\* The script's variables before the button is handled
Fresh ==
    /\ errors = <<>>
    /\ pdfs = <<>>
    /\ results = <<>>
    /\ smtp = None
    /\ i = 0
    /\ filename = <<>>
    /\ subject = <<>>
    /\ body = <<>>
    /\ exc = ""
    /\ ui = <<>>
    /\ log = <<>>

\* One rerun of the script with the button pressed, over the widget values
Init ==
    /\ sender_email \in {"", "me@gmail.com"}
    /\ app_password \in {"", "app-password"}
    /\ recipient \in {"", "recipient@example.com"}
    /\ use_tls \in BOOLEAN
    /\ dry_run \in BOOLEAN
    /\ upload_mode \in {UPLOAD, FOLDER}
    /\ IF upload_mode = UPLOAD
       THEN /\ uploads \in SeqsUpTo(UploadPool, MaxUploads)
            /\ folder_path = ""
            /\ listing = [isdir |-> FALSE, names |-> <<>>]
       ELSE /\ uploads = <<>>
            /\ folder_path \in {"", "/Users/me/pdfs"}
            /\ listing \in Listings
    /\ pc = "start"
    /\ Fresh

Next ==
    \/ Validate
    \/ OpenSkipped
    \/ \E good \in BOOLEAN : Connect(good)
    \/ \E good \in BOOLEAN : StartTls(good)
    \/ \E good \in BOOLEAN : Login(good)
    \/ DryRunItem
    \/ \E good \in BOOLEAN : SendItem(good)
    \/ Sleep
    \/ QuitSkipped
    \/ \E good \in BOOLEAN : Quit(good)
    \/ Report
    \/ Except

Spec == Init /\ [][Next]_vars

\* list_pdfs_from_uploads on its own, over every list of blobs
Idle ==
    /\ sender_email = ""
    /\ app_password = ""
    /\ recipient = ""
    /\ use_tls = TRUE
    /\ dry_run = FALSE
    /\ upload_mode = UPLOAD
    /\ folder_path = ""
    /\ listing = [isdir |-> FALSE, names |-> <<>>]

InitCollect ==
    /\ Idle
    /\ uploads \in SeqsUpTo(CollectPool, MaxCollect)
    /\ pc = "collect"
    /\ Fresh

Collect ==
    /\ pc = "collect"
    /\ LET got == list_pdfs_from_uploads(uploads) IN
       /\ pdfs' = got.items
       /\ ui' = got.warnings
    /\ pc' = "collected"
    /\ UNCHANGED <<inputs, errors, results, smtp, i, filename, subject, body, exc, log>>

SpecCollect == InitCollect /\ [][Collect]_vars

\* build_subject_auto / build_body_auto on their own, over every short name
InitSubject ==
    /\ Idle
    /\ uploads = <<>>
    /\ pc = "compose"
    /\ errors = <<>>
    /\ pdfs = <<>>
    /\ results = <<>>
    /\ smtp = None
    /\ i = 0
    /\ filename \in SeqsUpTo(NameAlphabet, MaxNameLen)
    /\ subject = <<>>
    /\ body = <<>>
    /\ exc = ""
    /\ ui = <<>>
    /\ log = <<>>

Compose ==
    /\ pc = "compose"
    /\ subject' = build_subject_auto(filename)
    /\ body' = build_body_auto(filename)
    /\ pc' = "composed"
    /\ UNCHANGED <<inputs, errors, pdfs, results, smtp, i, filename, exc, ui, log>>

SpecSubject == InitSubject /\ [][Compose]_vars

-----------------------------------------------------------------------------
(* Properties *)

Range(q) == {q[k] : k \in 1..Len(q)}

Positions(o) == {k \in 1..Len(log) : log[k].op = o}

SendEvents(n) == {k \in Positions("send") : log[k].idx = n}

\* connect, STARTTLS or login raised
OpenFailed == \E k \in 1..Len(log) : log[k].op \in {"connect", "starttls", "login"} /\ ~log[k].ok

Finished == pc = "done" /\ errors = <<>>

OneToOne ==
    /\ Len(results) = Len(pdfs)
    /\ \A k \in 1..Len(pdfs) : results[k].File = pdfs[k].name

\* C1 as stated: every run that passes validation ends with one result per
\* collected PdfItem, the k-th result carrying the k-th item's filename.
C1_ResultsMatchPdfs == Finished => OneToOne

\* C1 amended: a run that passes validation and whose session opening does not
\* fail ends with one result per PdfItem, in order; a run whose connect,
\* STARTTLS or login fails ends with no result at all.
C1_ResultsMatchPdfsUnlessOpenFailed ==
    Finished => IF OpenFailed THEN results = <<>> ELSE OneToOne

C1_Witness ==
    /\ Finished /\ ~dry_run /\ ~OpenFailed
    /\ Len(pdfs) >= 3
    /\ OneToOne
    /\ \E j, k \in 1..Len(results) :
          results[j].Status = SENT /\ results[k].Status = Failed("send failed")

\* C2: in a real run whose session opened, a send that raises is recorded as
\* Failed for that item and the loop goes on: every item is attempted exactly
\* once and its result shows its own outcome.
C2_FailedSendDoesNotStopLoop ==
    (Finished /\ ~dry_run /\ ~OpenFailed) =>
        \A n \in 1..Len(pdfs) :
            /\ Cardinality(SendEvents(n)) = 1
            /\ n <= Len(results)
            /\ \A k \in SendEvents(n) :
                  results[n].Status = IF log[k].ok THEN SENT ELSE Failed("send failed")

C2_Witness ==
    /\ Finished /\ ~dry_run
    /\ Len(results) = 3
    /\ results[1].Status = SENT
    /\ results[2].Status = Failed("send failed")
    /\ results[3].Status = SENT

\* C3: in dry-run mode no session object is ever made, nothing is called on
\* the transport, and every result has the dry-run status.
C3_DryRunNeverTouchesTransport ==
    dry_run =>
        /\ smtp = None
        /\ log = <<>>
        /\ \A k \in 1..Len(results) : results[k].Status = DRY_RUN
        /\ (Finished => Len(results) = Len(pdfs) /\ Len(pdfs) > 0)

C3_Witness == dry_run /\ Finished /\ Len(results) >= 2

\* C4 as stated: a session that was opened is closed by the end of the run,
\* on every path.
C4_SessionAlwaysClosed == (pc = "done" /\ smtp.made) => smtp.closed

\* C5: when connect, STARTTLS or login fails, no send is attempted, no result
\* is recorded, and the run ends with exactly one error message and no table.
C5_OpenFailureAbortsRun ==
    OpenFailed =>
        /\ pc \in {"except", "done"}
        /\ Positions("send") = {}
        /\ results = <<>>
        /\ (pc = "done" =>
               /\ Cardinality({k \in 1..Len(ui) : ui[k][1] = "error"}) = 1
               /\ \A k \in 1..Len(ui) : ui[k][1] # "dataframe")

C5_Witness ==
    /\ pc = "done"
    /\ Len(pdfs) >= 2
    /\ \E k \in Positions("login") : ~log[k].ok

\* C6 as stated: between any two consecutive send attempts there is exactly
\* one pause, whatever the outcome of the first.
C6_PauseBetweenAttempts ==
    \A j, k \in Positions("send") :
        (j < k /\ \A m \in Positions("send") : ~(j < m /\ m < k)) =>
            Cardinality({m \in Positions("sleep") : j < m /\ m < k}) = 1

\* C7: if a validation condition fails the run stops after reporting: each
\* failed condition has its message on screen, no session is made, nothing is
\* sent, and no result is recorded or shown.
ErrorShown(msg) == <<"error", msg>> \in Range(ui)

C7_ValidationFailureStopsRun ==
    (pc # "start") =>
        /\ (recipient = "" => ErrorShown(E_RECIPIENT) /\ pc = "done")
        /\ (upload_mode = UPLOAD /\ uploads = <<>> => ErrorShown(E_UPLOAD) /\ pc = "done")
        /\ (upload_mode = FOLDER /\ folder_path = "" => ErrorShown(E_FOLDER) /\ pc = "done")
        /\ (app_password = "" /\ ~dry_run => ErrorShown(E_PASSWORD) /\ pc = "done")
        /\ (sender_email = "" => ErrorShown(E_SENDER) /\ pc = "done")
        /\ (errors # <<>> =>
               /\ pc = "done"
               /\ smtp = None
               /\ log = <<>>
               /\ results = <<>>
               /\ \A k \in 1..Len(ui) : ui[k][1] \notin {"dataframe", "success", "info"}
               /\ \A k \in 1..Len(errors) : ErrorShown(errors[k]))

C7_Witness ==
    /\ pc = "done"
    /\ recipient = "" /\ sender_email = ""
    /\ uploads # <<>> /\ pdfs # <<>>
    /\ Len(errors) = 2

\* C8: a blob named *.zip that cannot be opened as an archive gives exactly
\* one warning naming it and no PdfItem, and the items of all the other blobs
\* are still collected, in source order.
CannotOpen(f) == ~is_pdf(f.name) /\ endswith(lower(f.name), DOT_ZIP) /\ ~f.is_zip

RECURSIVE ItemsOfOthers(_)
ItemsOfOthers(files) ==
    IF files = <<>> THEN <<>>
    ELSE (IF CannotOpen(Head(files)) THEN <<>>
          ELSE list_pdfs_from_uploads(<<Head(files)>>).items)
         \o ItemsOfOthers(Tail(files))

C8_BadZipDoesNotAbortCollection ==
    (pc = "collected") =>
        /\ pdfs = ItemsOfOthers(uploads)
        /\ \A k \in 1..Len(uploads) :
              CannotOpen(uploads[k]) =>
                  Cardinality({m \in 1..Len(ui) : ui[m] = BadZipWarning(uploads[k].name)})
                    = Cardinality({m \in 1..Len(uploads) : uploads[m] = uploads[k]})

C8_Witness ==
    /\ pc = "collected"
    /\ uploads = <<a_pdf, bad_zip, good_ZIP>>
    /\ Len(pdfs) = 3
    /\ ui = <<BadZipWarning(bad_zip.name)>>

\* C9: at most one session is opened; with use_tls set, login comes only after
\* a successful STARTTLS on it; no item is sent before a successful login.
C9_OneSessionTlsBeforeLogin ==
    /\ Cardinality(Positions("connect")) <= 1
    /\ \A k \in Positions("starttls") :
          \E j \in Positions("connect") : j < k /\ log[j].ok
    /\ \A k \in Positions("login") :
          /\ \E j \in Positions("connect") : j < k /\ log[j].ok
          /\ use_tls => \E j \in Positions("starttls") : j < k /\ log[j].ok
    /\ \A k \in Positions("send") :
          \E j \in Positions("login") : j < k /\ log[j].ok

C9_Witness ==
    /\ pc = "done" /\ use_tls
    /\ Cardinality(Positions("send")) >= 2
    /\ smtp.tls /\ smtp.auth

\* C10: a name whose last four characters are ".pdf" in any letter case loses
\* exactly those four characters; every other name is returned unchanged.
HasPdfSuffixAnyCase(f) ==
    /\ Len(f) >= 4
    /\ f[Len(f) - 3] = "."
    /\ f[Len(f) - 2] \in {"p", "P"}
    /\ f[Len(f) - 1] \in {"d", "D"}
    /\ f[Len(f)] \in {"f", "F"}

C10_SubjectStripsPdfSuffix ==
    (pc = "composed") =>
        IF HasPdfSuffixAnyCase(filename)
        THEN /\ Len(subject) = Len(filename) - 4
             /\ subject \o SubSeq(filename, Len(filename) - 3, Len(filename)) = filename
        ELSE subject = filename

C10_Witness ==
    /\ pc = "composed"
    /\ filename = <<"a", ".", "P", "d", "F">>
    /\ subject = <<"a">>

====
